---- MODULE Spec2Model ----
(***************************************************************************)
(* Model of the frame-streaming engine of detection_app:                   *)
(*   FrameDecoder  (src/src/video_reader.rs, lines 18-108)                 *)
(*   VideoReader   (src/src/video_reader.rs, lines 110-207)                *)
(*   ControlCommand (src/src/command.rs)                                   *)
(* The worker thread spawned by VideoReader::new is modelled step by step; *)
(* its steps are split at the channel operations (try_recv, send) and at   *)
(* the sleep, the points at which the consumer's thread can interleave.    *)
(* The frame channel is an unbounded mpsc channel: what the consumer has   *)
(* already taken out of it never influences the worker, so the channel is  *)
(* kept as the sequence of everything the worker queued on it.             *)
(***************************************************************************)
EXTENDS Integers, Sequences, FiniteSets, TLC

(* ------------------------------ bounds --------------------------------- *)
\* Largest number of decodable frames of a modelled source.
MaxFrames == 2
\* Largest number of control commands the consumer sends in one run.
MaxSent == 2
\* Frame rate of the modelled clips (frames per second).
ClipFps == 10
\* Largest number of files the user picks in one run of the application.
MaxOpens == 2

(* --------------------------- data model -------------------------------- *)
\* Milliseconds between two frames of a clip.
FrameIntervalMs == 1000 \div ClipFps

\* CAP_PROP_POS_MSEC of the frame with decode index i.
PosMsec(i) == i * FrameIntervalMs

\* Decode index selected by setting CAP_PROP_POS_MSEC to ms.
MsToIndex(ms) == ms \div FrameIntervalMs

\* Positions a Seek command may ask for.
SeekMs == {PosMsec(i) : i \in 0..MaxFrames}

\* enum ControlCommand { Play, Pause, Seek(f64) }
Play == [type |-> "Play", ms |-> 0]
Pause == [type |-> "Pause", ms |-> 0]
Seek(ms) == [type |-> "Seek", ms |-> ms]
ControlCommand == {Play, Pause} \cup {Seek(m) : m \in SeekMs}

\* What is behind a path: whether VideoCapture::from_file fails, whether the
\* handle reports is_opened, how many frames decode, and what the read after
\* the last decodable frame meets: the end of the stream, a frame that cannot
\* be read (or is empty), or a frame whose colour conversion fails.
\* A source also reports two properties, each of which may fail to be read:
\* CAP_PROP_FPS (fpsOk, fpsVal) and CAP_PROP_FRAME_COUNT (countOk, countVal).
Tails == {"eof", "unreadable", "cvtfail"}
Source(o, n, t, fOk, f, cOk, c) ==
    [open |-> o, nOk |-> n, tail |-> t,
     fpsOk |-> fOk, fpsVal |-> f, countOk |-> cOk, countVal |-> c]

\* The sources of the streaming scenarios: clips of ClipFps frames per second
\* that report their frame count, and paths that cannot be opened.
Sources ==
    {Source("opened", n, t, TRUE, ClipFps, TRUE, n) : n \in 0..MaxFrames, t \in Tails}
    \cup {Source(o, 0, "eof", TRUE, ClipFps, TRUE, 0) : o \in {"not_opened", "from_file_err"}}
NoSource == Source("none", 0, "eof", TRUE, 0, TRUE, 0)

\* Frame rates and frame counts a source may report.
FpsVals == {0 - 1, 0, 3, ClipFps, 30}
CountVals == {0, 1, MaxFrames, 50}

\* The sources of the metadata scenarios: one-frame clips with every
\* combination of reported (or unreadable) frame rate and frame count.
MetaSources ==
    {Source("opened", 1, "eof", fOk, f, cOk, c) :
        fOk \in BOOLEAN, f \in FpsVals, cOk \in BOOLEAN, c \in CountVals}

\* Items of the frame channel: Result<(ColorImage, f64), VideoReaderError>.
\* idx identifies the decoded image, ts is the timestamp sent with it, tsOk
\* records whether the position read succeeded (history only).
FrameItem(i, t, ok) == [kind |-> "frame", idx |-> i, ts |-> t, tsOk |-> ok]
ErrorItem(i) == [kind |-> "error", idx |-> i, ts |-> 0, tsOk |-> FALSE]
NoItem == [kind |-> "none", idx |-> 0, ts |-> 0, tsOk |-> FALSE]

\* Items of the frame channel of MyApp, which carries no timestamp
\* (Result<ColorImage, VideoReaderError>); w is the worker that sent the item.
AppItem(w, k, i) == [w |-> w, kind |-> k, idx |-> i]
NoAppItem == AppItem(0, "none", 0)

VARIABLES
    result,       \* what VideoReader::new returned: "none" (not called), "ok", "err"
    src,          \* what the path given to VideoReader::new names
    pc,           \* worker thread: "none", "recv", "decode", "send", "senderr", "sleep", "stopped"
    is_paused,    \* the worker's local flag
    pos,          \* decode index of the next frame cap.read returns
    pending,      \* result of read_next_frame awaiting image_sender.send
    decoderOpen,  \* the FrameDecoder (VideoCapture) exists
    sent,         \* every command queued on the control channel, in send order
    nRecv,        \* how many of them control_receiver.try_recv has returned
    ctlTxAlive,   \* the consumer still holds the control Sender
    outbox,       \* every item the worker queued on the frame channel, in send order
    rxAlive,      \* the consumer still holds the frame Receiver
    seekFailed,   \* stderr holds a "Seek failed to position" line
    fps,          \* let fps = decoder.get_fps() of VideoReader::new
    duration,     \* VideoReader.duration, in milliseconds
    delay_ms,     \* the sleep duration captured by the worker's closure
    cycleSleepMs, \* history: milliseconds slept since the last try_recv
    appliedLog,   \* history: the commands the worker has applied, in order
    \* The application (MyApp of ui.rs) and the workers it has started:
    playback_state, \* "NotLoaded", "Paused", "Playing", "Finished", "Error"
    video_reader,   \* MyApp.video_reader: 0 for None, else the worker's number
    control_sender, \* MyApp.control_sender: 0 for None, else the worker it commands
    texture,        \* MyApp.texture: the frame on display, or NoAppItem
    workers,        \* the worker threads started so far, oldest first
    chan,           \* the items queued in the one frame channel of MyApp
    appPc,          \* where MyApp::update stands: "poll" or "ui"
    picks,          \* how many files the user has picked
    clicks,         \* how many times the user has clicked Play or Pause
    rewound,      \* history: a Seek moved pos backwards since the last frame was sent
    sincePause,   \* history: -1, or cycle boundaries passed since Pause was sent last
    sinceRxDrop,  \* history: -1, or cycle boundaries passed since the Receiver was dropped
    sinceTxDrop   \* history: -1, or cycle boundaries passed since the control Sender was dropped

readerVars == <<result, src, pc, is_paused, pos, pending, decoderOpen, sent, nRecv,
                ctlTxAlive, outbox, rxAlive, seekFailed, rewound,
                sincePause, sinceRxDrop, sinceTxDrop>>

metaVars == <<fps, duration, delay_ms>>
logVars == <<cycleSleepMs, appliedLog>>

appVars == <<playback_state, video_reader, control_sender, texture, workers,
             chan, appPc, picks, clicks>>

vars == <<readerVars, metaVars, logVars, appVars>>

ctlVars == <<sent, nRecv, ctlTxAlive>>
frameVars == <<outbox, rxAlive>>
histVars == <<rewound, sincePause, sinceRxDrop, sinceTxDrop>>

(* ----------------------------- helpers --------------------------------- *)
\* Commands queued in the control channel and not yet received.
inbox == SubSeq(sent, nRecv + 1, Len(sent))

\* Commands the worker has applied so far.
applied == SubSeq(sent, 1, nRecv)

\* Saturating count of cycle boundaries since an event (-1: event not seen).
Tick(c, cap) == IF c < 0 THEN c ELSE IF c < cap THEN c + 1 ELSE c

\* The frame rate get_fps falls back to when the property cannot be read.
DefaultFps == 30

\* The sleep in milliseconds used when the frame rate is not positive.
FallbackDelayMs == 33

\* FrameDecoder::get_fps: cap.get(CAP_PROP_FPS).unwrap_or(30.0).
GetFps(s) == IF s.fpsOk THEN s.fpsVal ELSE DefaultFps

\* cap.get(CAP_PROP_FRAME_COUNT).unwrap_or(0.0).
FrameCount(s) == IF s.countOk THEN s.countVal ELSE 0

\* Variant: the frame count is multiplied by the frame rate.
DurationTimesFps(s) ==
    IF GetFps(s) > 0 THEN FrameCount(s) * 1000 * GetFps(s) ELSE 0

\* FrameDecoder::duration: frame_count / fps seconds, kept here in whole
\* milliseconds; 0.0 when the frame rate is not positive.
Duration(s) ==
    IF GetFps(s) > 0 THEN (FrameCount(s) * 1000) \div GetFps(s) ELSE 0

\* Variant: no fallback delay, a non-positive frame rate gives no sleep.
DelayMsNoFallback(f) == IF f > 0 THEN 1000 \div f ELSE 0

\* let delay_ms = if fps > 0.0 { (1000.0 / fps) as u64 } else { 33 };
DelayMs(f) == IF f > 0 THEN 1000 \div f ELSE FallbackDelayMs

\* Variant: the newest queued command is taken and the older ones are lost.
ReceivedNewest(queue) == queue[Len(queue)]

\* The command an Ok(..) of control_receiver.try_recv() carries: the oldest
\* one queued.
Received(queue) == Head(queue)

\* Variant: the is_opened check is missing.
DecoderNewUnchecked(s) == IF s.open = "from_file_err" THEN "err" ELSE "ok"

\* FrameDecoder::new: Err when from_file fails or the handle is not opened.
DecoderNew(s) == IF s.open = "opened" THEN "ok" ELSE "err"

\* Variant: the worker starts playing.
InitialPausedAutoPlay == FALSE

\* let mut is_paused = true;
InitialPaused == TRUE

\* control_receiver.try_recv(): queued commands are returned first, even after
\* the Sender is gone; then Disconnected or Empty.
TryRecv(queue, txAlive) ==
    IF Len(queue) > 0 THEN "Ok"
    ELSE IF txAlive THEN "Empty" ELSE "Disconnected"

\* Variant: a Seek also resumes playback.
ApplyPausedSeekResumes(cmd, paused) ==
    IF cmd.type = "Pause" THEN TRUE ELSE FALSE

\* The paused flag after a command is applied.
ApplyPaused(cmd, paused) ==
    IF cmd.type = "Play" THEN FALSE
    ELSE IF cmd.type = "Pause" THEN TRUE
    ELSE paused

\* Variant: Play restarts the stream from its first frame.
ApplyPosPlayRestarts(cmd, setOk, p) ==
    IF cmd.type = "Seek" /\ setOk THEN MsToIndex(cmd.ms)
    ELSE IF cmd.type = "Play" THEN 0 ELSE p

\* The decoder position after a command is applied; setOk is the outcome of
\* cap.set(CAP_PROP_POS_MSEC, ms).
ApplyPos(cmd, setOk, p) ==
    IF cmd.type = "Seek" /\ setOk THEN MsToIndex(cmd.ms) ELSE p

\* Variant: a failed seek ends the loop.
ApplyBreaksOnSeekFailure(cmd, setOk) == cmd.type = "Seek" /\ ~setOk

\* Whether applying a command ends the worker's loop.
ApplyBreaks(cmd, setOk) == FALSE

\* Variant: the last decodable frame is taken for the end of the stream.
ReadNextFrameOffByOne(s, p) ==
    IF p + 1 < s.nOk THEN "frame"
    ELSE IF p = s.nOk /\ s.tail = "cvtfail" THEN "err"
    ELSE "none"

\* FrameDecoder::read_next_frame at position p: "frame" for Ok(Some), "none"
\* for Ok(None), "err" for Err.
ReadNextFrame(s, p) ==
    IF p < s.nOk THEN "frame"
    ELSE IF p = s.nOk /\ s.tail = "cvtfail" THEN "err"
    ELSE "none"

\* Variant: the break after sending the error is missing.
AfterSendErrContinues == "sleep"

\* The worker's pc after image_sender.send(Err(err)).
AfterSendErr == "stopped"

\* The worker's pc after image_sender.send(Ok(frame)) returned sendOk.
AfterSendFrame(sendOk) == IF sendOk THEN "sleep" ELSE "stopped"

(* ------------------------------- Init ---------------------------------- *)
Init ==
    /\ result = "none"
    /\ src = NoSource
    /\ pc = "none"
    /\ is_paused = InitialPaused
    /\ pos = 0
    /\ pending = NoItem
    /\ decoderOpen = FALSE
    /\ sent = <<>>
    /\ nRecv = 0
    /\ ctlTxAlive = TRUE
    /\ outbox = <<>>
    /\ rxAlive = TRUE
    /\ seekFailed = FALSE
    /\ rewound = FALSE
    /\ sincePause = -1
    /\ sinceRxDrop = -1
    /\ sinceTxDrop = -1
    /\ fps = 0
    /\ duration = 0
    /\ delay_ms = 0
    /\ cycleSleepMs = 0
    /\ appliedLog = <<>>
    /\ playback_state = "NotLoaded"
    /\ video_reader = 0
    /\ control_sender = 0
    /\ texture = NoAppItem
    /\ workers = <<>>
    /\ chan = <<>>
    /\ appPc = "poll"
    /\ picks = 0
    /\ clicks = 0

(* --------------------------- consumer side ----------------------------- *)
\* VideoReader::new(path, image_sender, control_receiver).
New(s) ==
    /\ result = "none"
    /\ IF DecoderNew(s) = "ok"
       THEN /\ result' = "ok"
            /\ decoderOpen' = TRUE
            /\ pc' = "recv"
            /\ is_paused' = InitialPaused
            /\ fps' = GetFps(s)
            /\ duration' = Duration(s)
            /\ delay_ms' = DelayMs(GetFps(s))
       ELSE /\ result' = "err"
            /\ UNCHANGED <<decoderOpen, pc, is_paused, metaVars>>
    /\ src' = s
    /\ UNCHANGED <<pos, pending, ctlVars, frameVars, seekFailed, histVars, logVars>>
    /\ UNCHANGED appVars

\* The consumer sends a command; a send to a worker that has exited fails and
\* queues nothing.
SendCommand(cmd) ==
    /\ result = "ok"
    /\ pc # "stopped"
    /\ ctlTxAlive
    /\ Len(sent) < MaxSent
    /\ sent' = Append(sent, cmd)
    /\ sincePause' = IF cmd.type = "Pause" THEN 0 ELSE -1
    /\ UNCHANGED <<result, src, pc, is_paused, pos, pending, decoderOpen, nRecv,
                   ctlTxAlive, frameVars, seekFailed, rewound, sinceRxDrop,
                   sinceTxDrop>>
    /\ UNCHANGED <<metaVars, logVars>>
    /\ UNCHANGED appVars

\* The consumer drops its control Sender.
DropControlSender ==
    /\ result = "ok"
    /\ ctlTxAlive
    /\ ctlTxAlive' = FALSE
    /\ sinceTxDrop' = 0
    /\ UNCHANGED <<result, src, pc, is_paused, pos, pending, decoderOpen, sent,
                   nRecv, frameVars, seekFailed, rewound, sincePause, sinceRxDrop>>
    /\ UNCHANGED <<metaVars, logVars>>
    /\ UNCHANGED appVars

\* The consumer drops its frame Receiver.
DropImageReceiver ==
    /\ result = "ok"
    /\ rxAlive
    /\ rxAlive' = FALSE
    /\ sinceRxDrop' = 0
    /\ UNCHANGED <<result, src, pc, is_paused, pos, pending, decoderOpen, ctlVars,
                   outbox, seekFailed, rewound, sincePause, sinceTxDrop>>
    /\ UNCHANGED <<metaVars, logVars>>
    /\ UNCHANGED appVars

(* ---------------------------- worker thread ---------------------------- *)
\* Variant: the decoder outlives the thread.
StopLeaks(nextPc) == decoderOpen

\* Exit of the thread closure: the decoder it owns is dropped.
Stop(nextPc) == IF nextPc = "stopped" THEN FALSE ELSE decoderOpen

\* match control_receiver.try_recv() { ... }
WorkerTryRecv ==
    /\ pc = "recv"
    /\ LET r == TryRecv(inbox, ctlTxAlive) IN
       IF r = "Ok"
       THEN \E setOk \in BOOLEAN :
              LET cmd == Received(inbox)
                  fails == cmd.type = "Seek" /\ ~setOk
                  np == ApplyPos(cmd, setOk, pos)
                  npc == IF ApplyBreaks(cmd, setOk) THEN "stopped" ELSE "decode"
              IN /\ (cmd.type # "Seek" => setOk)
                 /\ nRecv' = nRecv + 1
                 /\ is_paused' = ApplyPaused(cmd, is_paused)
                 /\ pos' = np
                 /\ seekFailed' = (seekFailed \/ fails)
                 /\ rewound' = (rewound \/ (cmd.type = "Seek" /\ np < pos))
                 /\ pc' = npc
                 /\ decoderOpen' = Stop(npc)
                 /\ appliedLog' = Append(appliedLog, cmd)
       ELSE /\ pc' = IF r = "Disconnected" THEN "stopped" ELSE "decode"
            /\ decoderOpen' = Stop(pc')
            /\ UNCHANGED <<nRecv, is_paused, pos, seekFailed, rewound, appliedLog>>
    /\ cycleSleepMs' = 0
    /\ UNCHANGED <<result, src, pending, sent, ctlTxAlive, frameVars,
                   sincePause, sinceRxDrop, sinceTxDrop, metaVars>>
    /\ UNCHANGED appVars

\* if !is_paused { match decoder.read_next_frame() { ... } }
WorkerDecode ==
    /\ pc = "decode"
    /\ IF is_paused
       THEN /\ pc' = "sleep"
            /\ UNCHANGED <<pos, pending, decoderOpen>>
       ELSE LET r == ReadNextFrame(src, pos) IN
            IF r = "frame"
            THEN \E tsOk \in BOOLEAN :
                   /\ pending' = FrameItem(pos, IF tsOk THEN PosMsec(pos) ELSE 0, tsOk)
                   /\ pos' = pos + 1
                   /\ pc' = "send"
                   /\ UNCHANGED decoderOpen
            ELSE IF r = "err"
            THEN /\ pending' = ErrorItem(pos)
                 /\ pos' = pos + 1
                 /\ pc' = "senderr"
                 /\ UNCHANGED decoderOpen
            ELSE /\ pc' = "stopped"
                 /\ decoderOpen' = Stop("stopped")
                 /\ UNCHANGED <<pos, pending>>
    /\ UNCHANGED <<result, src, is_paused, ctlVars, frameVars, seekFailed, histVars>>
    /\ UNCHANGED <<metaVars, logVars>>
    /\ UNCHANGED appVars

\* if image_sender.send(Ok((color_image, timestamp_ms))).is_err() { break; }
WorkerSendFrame ==
    /\ pc = "send"
    /\ outbox' = IF rxAlive THEN Append(outbox, pending) ELSE outbox
    /\ pc' = AfterSendFrame(rxAlive)
    /\ decoderOpen' = Stop(pc')
    /\ pending' = NoItem
    /\ rewound' = FALSE
    /\ UNCHANGED <<result, src, is_paused, pos, ctlVars, rxAlive,
                   seekFailed, sincePause, sinceRxDrop, sinceTxDrop>>
    /\ UNCHANGED <<metaVars, logVars>>
    /\ UNCHANGED appVars

\* let _ = image_sender.send(Err(err)); break;
WorkerSendError ==
    /\ pc = "senderr"
    /\ outbox' = IF rxAlive THEN Append(outbox, pending) ELSE outbox
    /\ pc' = AfterSendErr
    /\ decoderOpen' = Stop(pc')
    /\ pending' = NoItem
    /\ UNCHANGED <<result, src, is_paused, pos, ctlVars, rxAlive,
                   seekFailed, histVars>>
    /\ UNCHANGED <<metaVars, logVars>>
    /\ UNCHANGED appVars

\* thread::sleep(Duration::from_millis(delay_ms)); then the next cycle begins.
WorkerSleep ==
    /\ pc = "sleep"
    /\ pc' = "recv"
    /\ sincePause' = Tick(sincePause, 1)
    /\ sinceRxDrop' = Tick(sinceRxDrop, 2)
    /\ sinceTxDrop' = Tick(sinceTxDrop, 1)
    /\ cycleSleepMs' = cycleSleepMs + delay_ms
    /\ UNCHANGED <<result, src, is_paused, pos, pending, decoderOpen, ctlVars,
                   frameVars, seekFailed, rewound, metaVars, appliedLog>>
    /\ UNCHANGED appVars

Next ==
    \/ \E s \in Sources : New(s)
    \/ \E cmd \in ControlCommand : SendCommand(cmd)
    \/ DropControlSender
    \/ DropImageReceiver
    \/ WorkerTryRecv
    \/ WorkerDecode
    \/ WorkerSendFrame
    \/ WorkerSendError
    \/ WorkerSleep

Spec == Init /\ [][Next]_vars

\* A step of the worker thread.
WorkerStep ==
    \/ WorkerTryRecv
    \/ WorkerDecode
    \/ WorkerSendFrame
    \/ WorkerSendError
    \/ WorkerSleep

\* The consumer of the end-of-stream scenario: it opens a source, sends no
\* command but Play, and may drop either of its channel ends.
PlayOnlyNext ==
    \/ \E s \in Sources : New(s)
    \/ SendCommand(Play)
    \/ DropControlSender
    \/ DropImageReceiver
    \/ WorkerStep

\* The spawned thread is scheduled by the operating system and its only wait
\* is the bounded sleep, so a worker that can step eventually does; nothing
\* obliges the consumer to act.
PlayOnlySpec == Init /\ [][PlayOnlyNext]_vars /\ WF_vars(WorkerStep)

\* The consumer of the metadata scenarios: it opens a source of any reported
\* frame rate and frame count and toggles playback.
MetaNext ==
    \/ \E s \in MetaSources : New(s)
    \/ SendCommand(Play)
    \/ SendCommand(Pause)
    \/ WorkerTryRecv
    \/ WorkerDecode
    \/ WorkerSendFrame
    \/ WorkerSleep

MetaSpec == Init /\ [][MetaNext]_vars

(* ------------------------- the application ----------------------------- *)
\* The state of a worker thread started by MyApp. inbox holds the commands
\* queued on its control channel; superseded (history) records that the user
\* picked another file while the worker was live; exit (history) records why
\* the loop ended: "eos", "error" or "disconnected".
AppWorker(s) ==
    [src |-> s, pc |-> "recv", is_paused |-> InitialPaused, pos |-> 0,
     pending |-> NoAppItem, inbox |-> <<>>, superseded |-> FALSE, exit |-> "none"]

\* The files the user picks: a one-frame clip that ends, a one-frame clip
\* whose second frame fails to convert, and a path that cannot be opened.
AppSources ==
    {Source("opened", 1, "eof", TRUE, ClipFps, TRUE, 1),
     Source("opened", 1, "cvtfail", TRUE, ClipFps, TRUE, 1),
     Source("not_opened", 0, "eof", TRUE, ClipFps, TRUE, 0)}

\* The worker threads that have not left their loop.
LiveWorkers == {w \in 1..Len(workers) : workers[w].pc # "stopped"}

\* MyApp keeps its own image_sender for as long as it lives; the workers get
\* clones of it.
AppHoldsSender == TRUE

\* self.image_receiver.try_recv(): "item", "disconnected" or "empty".
AppTryRecv ==
    IF Len(chan) > 0 THEN "item"
    ELSE IF ~AppHoldsSender /\ LiveWorkers = {} THEN "disconnected"
    ELSE "empty"

\* What the poll of update found: "frame", "error", "disconnected" or "empty".
PollOutcome ==
    IF AppTryRecv = "item" THEN Head(chan).kind ELSE AppTryRecv

\* Variant: a polled error value is dropped without changing the state.
PollStateIgnoresError(st, o) ==
    IF o = "disconnected" /\ st \in {"Playing", "Paused"} THEN "Finished" ELSE st

\* The playback state after the poll of update.
PollState(st, o) ==
    IF o = "error" THEN "Error"
    ELSE IF o = "disconnected" /\ st \in {"Playing", "Paused"} THEN "Finished"
    ELSE st

\* MyApp::update, first half: match self.image_receiver.try_recv() { ... }
UpdatePoll ==
    /\ appPc = "poll"
    /\ appPc' = "ui"
    /\ playback_state' = PollState(playback_state, PollOutcome)
    /\ chan' = IF AppTryRecv = "item" THEN Tail(chan) ELSE chan
    /\ texture' = IF PollOutcome = "frame" THEN Head(chan) ELSE texture
    /\ video_reader' = IF PollOutcome \in {"error", "disconnected"} THEN 0
                       ELSE video_reader
    /\ UNCHANGED <<control_sender, workers, picks, clicks>>
    /\ UNCHANGED <<readerVars, metaVars, logVars>>

\* MyApp::update, second half, when no button is clicked.
UiIdle ==
    /\ appPc = "ui"
    /\ appPc' = "poll"
    /\ UNCHANGED <<playback_state, video_reader, control_sender, texture,
                   workers, chan, picks, clicks>>
    /\ UNCHANGED <<readerVars, metaVars, logVars>>

\* MyApp::update, second half, when the user picks the file s: the reader and
\* the texture are discarded and VideoReader::new is called with a clone of
\* the image sender and a new control channel.
UiPickFile(s) ==
    /\ appPc = "ui"
    /\ picks < MaxOpens
    /\ appPc' = "poll"
    /\ picks' = picks + 1
    /\ texture' = NoAppItem
    /\ LET marked == [w \in 1..Len(workers) |->
                        IF workers[w].pc # "stopped"
                        THEN [workers[w] EXCEPT !.superseded = TRUE]
                        ELSE workers[w]]
       IN IF DecoderNew(s) = "ok"
          THEN /\ workers' = Append(marked, AppWorker(s))
               /\ video_reader' = Len(workers) + 1
               /\ control_sender' = Len(workers) + 1
               /\ playback_state' = "Paused"
          ELSE /\ workers' = marked
               /\ video_reader' = 0
               /\ playback_state' = "Error"
               /\ UNCHANGED control_sender
    /\ UNCHANGED <<chan, clicks>>
    /\ UNCHANGED <<readerVars, metaVars, logVars>>

\* MyApp::update, second half, when the user clicks the Play or Pause button;
\* a send to a worker that has exited fails and is ignored.
UiClick ==
    /\ appPc = "ui"
    /\ control_sender # 0
    /\ playback_state \in {"Playing", "Paused"}
    /\ clicks < MaxSent
    /\ appPc' = "poll"
    /\ clicks' = clicks + 1
    /\ LET cmd == IF playback_state = "Playing" THEN Pause ELSE Play
           w == control_sender
       IN /\ workers' = IF workers[w].pc # "stopped"
                        THEN [workers EXCEPT ![w].inbox = Append(@, cmd)]
                        ELSE workers
          /\ playback_state' = IF playback_state = "Playing" THEN "Paused"
                               ELSE "Playing"
    /\ UNCHANGED <<video_reader, control_sender, texture, chan, picks>>
    /\ UNCHANGED <<readerVars, metaVars, logVars>>

\* The loop of worker w, as in WorkerTryRecv .. WorkerSleep; the Sender of
\* its control channel is the one MyApp.control_sender holds, if any.
AppWorkerTryRecv(w) ==
    /\ w \in 1..Len(workers)
    /\ workers[w].pc = "recv"
    /\ LET wk == workers[w]
           r == TryRecv(wk.inbox, control_sender = w)
       IN workers' =
            IF r = "Ok"
            THEN [workers EXCEPT ![w].is_paused = ApplyPaused(Received(wk.inbox), @),
                                 ![w].inbox = Tail(@),
                                 ![w].pc = "decode"]
            ELSE IF r = "Disconnected"
            THEN [workers EXCEPT ![w].pc = "stopped", ![w].exit = "disconnected"]
            ELSE [workers EXCEPT ![w].pc = "decode"]
    /\ UNCHANGED <<playback_state, video_reader, control_sender, texture, chan,
                   appPc, picks, clicks>>
    /\ UNCHANGED <<readerVars, metaVars, logVars>>

AppWorkerDecode(w) ==
    /\ w \in 1..Len(workers)
    /\ workers[w].pc = "decode"
    /\ LET wk == workers[w]
           r == ReadNextFrame(wk.src, wk.pos)
       IN workers' =
            IF wk.is_paused THEN [workers EXCEPT ![w].pc = "sleep"]
            ELSE IF r = "frame"
            THEN [workers EXCEPT ![w].pending = AppItem(w, "frame", wk.pos),
                                 ![w].pos = @ + 1,
                                 ![w].pc = "send"]
            ELSE IF r = "err"
            THEN [workers EXCEPT ![w].pending = AppItem(w, "error", wk.pos),
                                 ![w].pos = @ + 1,
                                 ![w].pc = "senderr"]
            ELSE [workers EXCEPT ![w].pc = "stopped", ![w].exit = "eos"]
    /\ UNCHANGED <<playback_state, video_reader, control_sender, texture, chan,
                   appPc, picks, clicks>>
    /\ UNCHANGED <<readerVars, metaVars, logVars>>

\* MyApp never drops its image_receiver, so the send succeeds.
AppWorkerSendFrame(w) ==
    /\ w \in 1..Len(workers)
    /\ workers[w].pc = "send"
    /\ chan' = Append(chan, workers[w].pending)
    /\ workers' = [workers EXCEPT ![w].pending = NoAppItem,
                                  ![w].pc = AfterSendFrame(TRUE)]
    /\ UNCHANGED <<playback_state, video_reader, control_sender, texture,
                   appPc, picks, clicks>>
    /\ UNCHANGED <<readerVars, metaVars, logVars>>

AppWorkerSendError(w) ==
    /\ w \in 1..Len(workers)
    /\ workers[w].pc = "senderr"
    /\ chan' = Append(chan, workers[w].pending)
    /\ workers' = [workers EXCEPT ![w].pending = NoAppItem,
                                  ![w].pc = AfterSendErr,
                                  ![w].exit = "error"]
    /\ UNCHANGED <<playback_state, video_reader, control_sender, texture,
                   appPc, picks, clicks>>
    /\ UNCHANGED <<readerVars, metaVars, logVars>>

AppWorkerSleep(w) ==
    /\ w \in 1..Len(workers)
    /\ workers[w].pc = "sleep"
    /\ workers' = [workers EXCEPT ![w].pc = "recv"]
    /\ UNCHANGED <<playback_state, video_reader, control_sender, texture, chan,
                   appPc, picks, clicks>>
    /\ UNCHANGED <<readerVars, metaVars, logVars>>

\* A step of worker thread w.
AppWorkerStep(w) ==
    \/ AppWorkerTryRecv(w)
    \/ AppWorkerDecode(w)
    \/ AppWorkerSendFrame(w)
    \/ AppWorkerSendError(w)
    \/ AppWorkerSleep(w)

\* A step of MyApp::update.
AppStep ==
    \/ UpdatePoll
    \/ UiIdle
    \/ \E s \in AppSources : UiPickFile(s)
    \/ UiClick

AppNext ==
    \/ UpdatePoll
    \/ UiIdle
    \/ \E s \in AppSources : UiPickFile(s)
    \/ UiClick
    \/ \E w \in 1..MaxOpens : AppWorkerTryRecv(w)
    \/ \E w \in 1..MaxOpens : AppWorkerDecode(w)
    \/ \E w \in 1..MaxOpens : AppWorkerSendFrame(w)
    \/ \E w \in 1..MaxOpens : AppWorkerSendError(w)
    \/ \E w \in 1..MaxOpens : AppWorkerSleep(w)

\* eframe calls update again and again (ctx.request_repaint), and every
\* spawned thread is scheduled; nothing obliges the user to pick or click.
AppSpec ==
    /\ Init
    /\ [][AppNext]_vars
    /\ WF_vars(AppStep)
    /\ \A w \in 1..MaxOpens : WF_vars(AppWorkerStep(w))

(* ------------------------------ claims --------------------------------- *)
\* An item of the frame channel is a frame.
IsFrame(item) == item.kind = "frame"

\* The step in which the worker queues a frame on the frame channel.
PushesFrame == pc = "send" /\ Len(outbox') = Len(outbox) + 1

\* No Play is among the commands the worker has applied.
NoPlayApplied == \A i \in 1..Len(applied) : applied[i].type # "Play"

\* C1: the worker starts paused and never auto-plays: as long as it has
\* applied no Play command, it has pushed no frame to the outbox (so a
\* consumer that sends only Pause and Seek gets zero frames).
C1_NoFrameBeforePlay ==
    NoPlayApplied => \A i \in 1..Len(outbox) : ~IsFrame(outbox[i])

\* C1 witness: the worker has applied two commands, none of them Play, has
\* gone through the decode decision and is at the sleep of that cycle.
C1_Witness ==
    /\ nRecv >= 2
    /\ NoPlayApplied
    /\ \E i \in 1..nRecv : sent[i].type = "Seek"
    /\ pc = "sleep"

\* C2: bounded pause latency: once Pause is the last command sent and a cycle
\* boundary has passed since it was sent, the worker pushes no frame,
\* whatever the inbox held when Pause was sent.
C2_PauseLatency ==
    [][PushesFrame => sincePause < 1]_vars

\* C3: the inbox is drained at the start of every cycle: when the worker goes
\* from its try_recv to the decision whether to decode, no command that was
\* queued is left unapplied.
C3_InboxDrained ==
    [][(pc = "recv" /\ pc' = "decode") => Len(inbox') = 0]_vars

C5_ReceiverDropStops ==
    sinceRxDrop >= 2 => (pc = "stopped" /\ ~decoderOpen)

\* C6: after the consumer has dropped the control Sender, the worker's next
\* try_recv ends the loop, and no frame is pushed once a cycle boundary has
\* passed since the drop, whatever the inbox held at the drop.
C6_SenderDropStops ==
    [][/\ (~ctlTxAlive /\ pc = "recv" /\ pc' # pc) => pc' = "stopped"
       /\ (PushesFrame => sinceTxDrop < 1)]_vars

\* C7: when the source cannot be opened or reports not-ready, VideoReader::new
\* returns an error, no worker thread exists, no decoder is left open and
\* nothing is ever pushed to the frame channel.
C7_FailedConstruction ==
    (result # "none" /\ src.open # "opened")
        => (result = "err" /\ pc = "none" /\ ~decoderOpen /\ outbox = <<>>)

\* C7 witness: construction was tried on a zero-byte file (handle not opened)
\* and returned the error.
C7_Witness == result = "err" /\ src.open = "not_opened"

\* The outbox holds exactly the first n frames of the source, in decode order.
ExactlyFrames(n) ==
    /\ Len(outbox) = n
    /\ \A i \in 1..n : IsFrame(outbox[i]) /\ outbox[i].idx = i - 1

\* C8 as stated: for a source of N readable frames, a consumer that sends Play
\* and nothing else and keeps its Receiver gets exactly N frames in decode
\* order and no error by the time the worker has exited.
C8_Original ==
    (result = "ok" /\ src.tail # "cvtfail" /\ sent = <<Play>> /\ rxAlive
        /\ pc = "stopped")
        => ExactlyFrames(src.nOk)

\* The consumer has sent Play and nothing else on a source without a failing
\* frame, and holds both its frame Receiver and its control Sender.
PlayOnlyKeepingBoth ==
    /\ result = "ok" /\ src.tail # "cvtfail"
    /\ sent = <<Play>> /\ rxAlive /\ ctlTxAlive

\* C8 amended: the same, for a consumer that also keeps its control Sender:
\* when the worker has exited, the outbox holds exactly the N frames in decode
\* order, no error value, and the worker's decoder is released; and as long
\* as the consumer does nothing else, the worker does exit.
C8_EndOfStream ==
    /\ []((PlayOnlyKeepingBoth /\ pc = "stopped")
            => (ExactlyFrames(src.nOk) /\ ~decoderOpen))
    /\ (PlayOnlyKeepingBoth ~> (pc = "stopped" \/ ~PlayOnlyKeepingBoth))

\* C8 witness: the worker has exited at the end of the longest source after a
\* single Play, with both channels' consumer ends kept.
C8_Witness ==
    /\ result = "ok" /\ src.tail = "eof" /\ src.nOk = MaxFrames
    /\ sent = <<Play>> /\ rxAlive /\ ctlTxAlive
    /\ pc = "stopped"
    /\ Len(outbox) = MaxFrames

\* C9: a decode failure is reported once and is fatal: an error value is only
\* ever the last item of the outbox, the worker is Stopped whenever the
\* outbox holds one, and the step that sends (or fails to deliver) the error
\* ends the loop.
C9_ErrorOnceAndLast ==
    /\ [](\A i \in 1..Len(outbox) :
            outbox[i].kind = "error" => (i = Len(outbox) /\ pc = "stopped"))
    /\ [][(pc = "senderr" /\ pc' # pc) => pc' = "stopped"]_vars

\* C9 witness: the worker pushed a frame and then an error value.
C9_Witness ==
    /\ Len(outbox) = 2
    /\ IsFrame(outbox[1])
    /\ outbox[2].kind = "error"

\* The step in which the worker receives and applies a Seek command.
AppliesSeek ==
    /\ pc = "recv"
    /\ Len(inbox) > 0
    /\ Head(inbox).type = "Seek"
    /\ nRecv' = nRecv + 1

\* C10: applying a Seek never ends the worker's loop (the worker goes on to
\* the decode decision of the same cycle with its decoder open), never pushes
\* anything to the outbox and leaves the paused flag unchanged, whether the
\* reposition succeeds or fails.
C10_SeekNonFatal ==
    [][AppliesSeek =>
         /\ pc' = "decode"
         /\ decoderOpen'
         /\ outbox' = outbox
         /\ is_paused' = is_paused]_vars

\* C10 witness: the only Seek sent has failed while the worker was playing,
\* and the worker went on to decode and is about to send a frame.
C10_Witness ==
    /\ seekFailed
    /\ nRecv = 2
    /\ sent[1].type = "Play" /\ sent[2].type = "Seek"
    /\ ~is_paused
    /\ pc = "send"

\* C12: for every successful open, the duration is frame_count / frame_rate
\* (in whole milliseconds here) when the frame rate is positive and 0
\* otherwise, and the handle keeps the value computed at open time.
C12_Duration ==
    /\ [](result = "ok" =>
            LET count == IF src.countOk THEN src.countVal ELSE 0 IN
            IF fps > 0
            THEN duration * fps <= count * 1000 /\ count * 1000 < (duration + 1) * fps
            ELSE duration = 0)
    /\ [][result = "ok" => duration' = duration]_vars

\* C12 witness: a 50-frame clip of ClipFps frames per second is open, its
\* duration is positive, and the worker has been running since.
C12_Witness ==
    /\ result = "ok"
    /\ src.fpsOk /\ src.fpsVal = ClipFps
    /\ src.countOk /\ src.countVal = 50
    /\ duration > 0
    /\ pc = "sleep"

\* C13: the frame rate is the default 30 both when the source's frame rate
\* cannot be read and when the source reports a frame rate of zero.
C13_FpsFallback ==
    (result = "ok" /\ (~src.fpsOk \/ src.fpsVal = 0)) => fps = 30

\* C14: the commands the worker has applied are at every moment a prefix of
\* the commands the consumer sent: none skipped, duplicated or reordered.
C14_AppliedInSendOrder ==
    /\ Len(appliedLog) <= Len(sent)
    /\ appliedLog = SubSeq(sent, 1, Len(appliedLog))

\* C14 witness: the worker has applied two different commands.
C14_Witness ==
    /\ Len(appliedLog) = 2
    /\ appliedLog[1] # appliedLog[2]

\* C15: a Seek changes only the decoder position, in the step it is received:
\* the paused flag is unchanged (a paused worker stays paused, a playing one
\* keeps playing), nothing is pushed, and the position is the one asked for
\* unless the reposition failed and was logged; and a paused worker never has
\* a frame to push.
C15_SeekOnlyMovesDecoder ==
    /\ [][AppliesSeek =>
            /\ is_paused' = is_paused
            /\ outbox' = outbox
            /\ pending' = pending
            /\ \/ pos' = MsToIndex(Head(inbox).ms)
               \/ (pos' = pos /\ seekFailed')]_vars
    /\ [](is_paused => pc \notin {"send", "senderr"})

\* C15 witness: a paused worker has applied a Seek that moved the decoder
\* forward, is still paused at the sleep of that cycle and has pushed nothing.
C15_Witness ==
    /\ is_paused
    /\ Len(appliedLog) > 0
    /\ appliedLog[Len(appliedLog)].type = "Seek"
    /\ ~seekFailed
    /\ pos > 0
    /\ outbox = <<>>
    /\ pc = "sleep"

\* C16: the decoder is open exactly while a constructed worker has not
\* reached Stopped, whichever way its loop exits, and no step of the consumer
\* other than the construction changes the decoder or its position.
C16_DecoderOwnedByWorker ==
    /\ [](decoderOpen <=> (result = "ok" /\ pc # "stopped"))
    /\ [][(pc' = pc /\ result' = result)
            => (pos' = pos /\ decoderOpen' = decoderOpen)]_vars

\* C16 witness: the worker pushed a frame and then left its loop because the
\* control Sender was dropped; its decoder is released.
C16_Witness ==
    /\ result = "ok"
    /\ pc = "stopped"
    /\ ~ctlTxAlive /\ rxAlive
    /\ Len(outbox) > 0
    /\ src.nOk > Len(outbox)
    /\ ~decoderOpen

\* C17: the sleep duration is 1000 / frame_rate whole milliseconds when the
\* frame rate is positive and 33 ms otherwise, it never changes after the
\* open, and a new cycle begins only from the sleep, after exactly one sleep
\* of that duration in the cycle before, paused or not.
C17_Pacing ==
    /\ [](result = "ok" =>
            IF fps > 0
            THEN delay_ms * fps <= 1000 /\ 1000 < (delay_ms + 1) * fps
            ELSE delay_ms = 33)
    /\ [][result = "ok" => delay_ms' = delay_ms]_vars
    /\ [][(pc' = "recv" /\ pc \notin {"none", "recv"})
            => (pc = "sleep" /\ cycleSleepMs' = delay_ms)]_vars
    /\ [](pc \in {"decode", "send", "senderr", "sleep"} => cycleSleepMs = 0)

\* C17 witness: a worker on a source reporting a frame rate of zero has gone
\* through a paused cycle and slept the 33 ms of the fallback once.
C17_Witness ==
    /\ result = "ok"
    /\ fps = 0
    /\ is_paused
    /\ pc = "recv"
    /\ cycleSleepMs = 33

\* The poll of update takes place and finds o.
Polls(o) == appPc = "poll" /\ appPc' = "ui" /\ PollOutcome = o

\* The user picks a file and VideoReader::new fails on it.
FailedPick == picks' = picks + 1 /\ Len(workers') = Len(workers)

\* The worker of the reader MyApp holds has left its loop at end of stream.
ReaderAtEos ==
    /\ playback_state \in {"Playing", "Paused"}
    /\ video_reader # 0
    /\ workers[video_reader].exit = "eos"

\* C11: when MyApp is Playing or Paused and the worker of its reader has
\* exited at end of stream without pushing an error, MyApp, polling the frame
\* channel once per update, eventually becomes Finished (unless the user
\* opens another file or an error arrives first).
C11_FinishedOnEos == ReaderAtEos ~> (playback_state = "Finished" \/ ~ReaderAtEos)

\* C18: the playback state becomes Error exactly when update polls an error
\* value or a picked file fails to open; it becomes Finished only from Playing
\* or Paused and only when the poll finds the channel disconnected; so Error
\* and NotLoaded are never replaced by Finished.
C18_TerminalStates ==
    /\ [][(Polls("error") \/ FailedPick) => playback_state' = "Error"]_vars
    /\ [][(playback_state' = "Error" /\ playback_state # "Error")
            => (Polls("error") \/ FailedPick)]_vars
    /\ [][(playback_state' = "Finished" /\ playback_state # "Finished")
            => (playback_state \in {"Playing", "Paused"} /\ Polls("disconnected"))]_vars
    /\ [][(playback_state = "Error" \/ playback_state = "NotLoaded")
            => playback_state' # "Finished"]_vars

\* C18 witness: the only file picked opened, its worker pushed an error value
\* and left, and update has polled that value: the state is Error and the
\* reader is gone.
C18_Witness ==
    /\ playback_state = "Error"
    /\ picks = 1
    /\ Len(workers) = 1
    /\ workers[1].exit = "error"
    /\ chan = <<>>
    /\ video_reader = 0

\* C19: every frame or error value update polls while MyApp holds a reader
\* was produced by the worker of that reader, the one opened last, never by
\* the worker of a source opened before.
C19_PolledFromCurrentWorker ==
    [][(appPc = "poll" /\ appPc' = "ui" /\ AppTryRecv = "item" /\ video_reader # 0)
         => Head(chan).w = video_reader]_vars

\* C20: a worker that was live when the user picked another file eventually
\* leaves its loop, whether the new file opened or not.
C20_SupersededStops ==
    \A w \in 1..MaxOpens :
        (w <= Len(workers) /\ workers[w].superseded)
            ~> (w <= Len(workers) /\ workers[w].pc = "stopped")

\* C21: in every reachable state in which a worker is live and the control
\* inbox it reads is empty, that worker's paused flag is false if and only if
\* the playback state of MyApp is Playing.
C21_AgreeAtQuiescence ==
    \A w \in 1..Len(workers) :
        (workers[w].pc # "stopped" /\ workers[w].inbox = <<>>)
            => (~workers[w].is_paused <=> playback_state = "Playing")

TypeOK ==
    /\ result \in {"none", "ok", "err"}
    /\ pc \in {"none", "recv", "decode", "send", "senderr", "sleep", "stopped"}
    /\ is_paused \in BOOLEAN
    /\ pos \in 0..(MaxFrames + 1)
    /\ nRecv \in 0..Len(sent)
    /\ Len(sent) <= MaxSent
====
